---- MODULE Spec2Model ----
(***************************************************************************)
(* A model of demo.py: the four source loaders, clean_data, sort_data,     *)
(* check_domain_constraints, transform_data, perform_analysis and the      *)
(* __main__ entry point.                                                   *)
(*                                                                         *)
(* A DataFrame is a record [cols, dtype, rows]; a row carries its index    *)
(* label (idx) and its cells (v).  Index labels are kept because           *)
(* drop_duplicates, dropna and sort_values keep them and pd.concat(axis=1) *)
(* aligns on them.  A text cell is a sequence of one-character strings, so *)
(* that str.split, ' '.join and re.sub are computed character by           *)
(* character.                                                              *)
(***************************************************************************)
EXTENDS Integers, Sequences, FiniteSets, TLC

VARIABLES
  name,             \* __name__: "__main__" (run as a script) or "demo" (imported)
  argv,             \* sys.argv; argv[1] is the program name (Python's sys.argv[0])
  pc,               \* position of the running script, or "lib" when imported
  data,             \* the entry point's `data`
  cleaned_data,     \* the object bound to cleaned_data in perform_analysis/__main__
  transformed_data, \* the object bound to transformed_data
  files,            \* names of the output files written so far
  exit_status,      \* the process's exit status once it has ended, else None
  raised,           \* the uncaught exception that ended the run, else NoExc
  invoked,          \* the functions of demo.py the entry point has called
  stdout,           \* the messages printed so far
  response,         \* what the GET of load_api came back with, once it has
  call,             \* imported use: the last call a client made
  ret               \* imported use: what that call returned / left behind

vars == <<name, argv, pc, data, cleaned_data, transformed_data, files,
          exit_status, raised, invoked, stdout, response, call, ret>>

\* Largest number of rows of an input dataset.
MaxRows == 3

\* Python's None where a DataFrame is expected
None == [isdf |-> FALSE, cols |-> <<>>, dtype |-> <<>>, rows |-> <<>>]

-----------------------------------------------------------------------------
(* Cells *)

Str(s)       == [t |-> "str", s |-> s,    n |-> 0, d |-> 0]
Num(n)       == [t |-> "num", s |-> <<>>, n |-> n, d |-> 0]
NaN          == [t |-> "nan", s |-> <<>>, n |-> 0, d |-> 0]
\* A standardized value (x - mean) / std kept exactly: with k rows of sum S,
\* (x - S/k) / sqrt(V)/k  where V = k * sum(x^2) - S^2; n is k*x - S, d is V.
Scaled(n, d) == [t |-> "scaled", s |-> <<>>, n |-> n, d |-> d]

isnull(c) == c.t = "nan"

\* The characters of the model's text cells, with their code points.
ord == [c \in {" ", "!", "1", "2", "3", "9", "V", "a", "b", "c", "e", "l", "u"} |->
          CASE c = " " -> 32 [] c = "!" -> 33 [] c = "1" -> 49 [] c = "2" -> 50
            [] c = "3" -> 51 [] c = "9" -> 57 [] c = "V" -> 86 [] c = "a" -> 97
            [] c = "b" -> 98 [] c = "c" -> 99 [] c = "e" -> 101 [] c = "l" -> 108
            [] c = "u" -> 117]

isspace(c) == c = " "
isalnum(c) == c \in {"1", "2", "3", "9", "V", "a", "b", "c", "e", "l", "u"}

ab      == <<"a", "b">>
ba      == <<"b", "a">>
c_bang  == <<"c", " ", "!">>
Value1  == <<"V", "a", "l", "u", "e", "1">>
Value2  == <<"V", "a", "l", "u", "e", "2">>
Value3  == <<"V", "a", "l", "u", "e", "3">>
V9      == <<"V", "9">>

-----------------------------------------------------------------------------
(* Text helpers: str.split(), ' '.join(), SpellChecker.correction, re.sub *)

RECURSIVE splitFrom(_, _, _)
\* Tokens of s from position i on; cur is the token being read.
splitFrom(s, i, cur) ==
  IF i > Len(s)
    THEN IF cur = <<>> THEN <<>> ELSE <<cur>>
    ELSE IF isspace(s[i])
           THEN IF cur = <<>> THEN splitFrom(s, i + 1, <<>>)
                              ELSE <<cur>> \o splitFrom(s, i + 1, <<>>)
           ELSE splitFrom(s, i + 1, Append(cur, s[i]))

split(s) == splitFrom(s, 1, <<>>)

RECURSIVE join(_)
join(words) ==
  IF words = <<>> THEN <<>>
  ELSE IF Len(words) = 1 THEN words[1]
  ELSE words[1] \o <<" ">> \o join(Tail(words))

\* The SpellChecker's answer for a word; <<>> stands for Python's None (split
\* never yields an empty word).  The dictionary of the model knows the word
\* "ab" and corrects its transposition "ba" to it; it has no candidate for any
\* other word.
correction(word) ==
  IF word = ab \/ word = ba THEN ab ELSE <<>>

correct_spelling(x) ==
  LET words == split(x)
      fixed == [i \in 1..Len(words) |->
                  IF correction(words[i]) # <<>> THEN correction(words[i])
                                                 ELSE words[i]]
  IN  join(fixed)

IsKept(c) == isalnum(c) \/ isspace(c)

\* re.sub(r'[^A-Za-z0-9\s]+', '', x)
remove_unwanted(x) == SelectSeq(x, IsKept)

-----------------------------------------------------------------------------
(* DataFrame helpers *)

Range(s) == {s[i] : i \in 1..Len(s)}

\* The rows of `rows` at the positions in keep, in their order.
RowsAt(rows, keep) ==
  LET F[i \in 0..Len(rows)] ==
        IF i = 0 THEN <<>>
        ELSE IF i \in keep THEN Append(F[i - 1], rows[i]) ELSE F[i - 1]
  IN  F[Len(rows)]

object_cols(df)    == SelectSeq(df.cols, LAMBDA c : df.dtype[c] = "object")
numerical_cols(df) == SelectSeq(df.cols, LAMBDA c : df.dtype[c] = "number")

\* for col in cols: df[col] = df[col].apply(lambda x: f(x) if pd.notnull(x) else x)
\* with f the spelling lambda (line 58) or the re.sub lambda (line 66)
ApplyCols(df, cols, f) ==
  [df EXCEPT !.rows =
     [i \in 1..Len(df.rows) |->
        [df.rows[i] EXCEPT !.v =
           [c \in DOMAIN @ |->
              IF c \in Range(cols) /\ ~isnull(@[c])
                THEN Str(IF f = "correct_spelling" THEN correct_spelling(@[c].s)
                                                   ELSE remove_unwanted(@[c].s))
                ELSE @[c]]]]]

Values(df)  == [i \in 1..Len(df.rows) |-> df.rows[i].v]
Labels(df)  == [i \in 1..Len(df.rows) |-> df.rows[i].idx]

-----------------------------------------------------------------------------
(* clean_data *)

\* drop_duplicates(keep='last') in place of the default
drop_duplicates_keep_last(df) ==
  [df EXCEPT !.rows =
     RowsAt(@, {i \in 1..Len(@) : \A j \in (i + 1)..Len(@) : @[j].v # @[i].v})]

\* DataFrame.drop_duplicates(): keep='first', the index labels are kept
drop_duplicates(df) ==
  [df EXCEPT !.rows =
     RowsAt(@, {i \in 1..Len(@) : \A j \in 1..(i - 1) : @[j].v # @[i].v})]

\* DataFrame.dropna(): how='any'
dropna(df) ==
  [df EXCEPT !.rows =
     RowsAt(@, {i \in 1..Len(@) : \A c \in Range(df.cols) : ~isnull(@[i].v[c])})]

clean_data(df) ==
  LET d1 == drop_duplicates(df)
      d2 == dropna(d1)
      d3 == ApplyCols(d2, object_cols(d2), "correct_spelling")
      d4 == ApplyCols(d3, object_cols(d3), "remove_unwanted")
  IN  d4

-----------------------------------------------------------------------------
(* sort_data *)

Min(a, b) == IF a < b THEN a ELSE b

\* Python's < on str
StrLess(a, b) ==
  \E k \in 1..(Min(Len(a), Len(b)) + 1) :
    /\ \A i \in 1..(k - 1) : a[i] = b[i]
    /\ \/ k > Len(a) /\ k <= Len(b)
       \/ k <= Len(a) /\ k <= Len(b) /\ ord[a[k]] < ord[b[k]]

CellLess(a, b) ==
  IF a.t = "str" THEN StrLess(a.s, b.s) ELSE a.n < b.n

\* a must come before b: NaN goes last in either direction
Precedes(a, b, ascending) ==
  IF isnull(a) THEN FALSE
  ELSE IF isnull(b) THEN TRUE
  ELSE IF ascending THEN CellLess(a, b) ELSE CellLess(b, a)

Orderings(n) ==
  {p \in [1..n -> 1..n] : \A i, j \in 1..n : i # j => p[i] # p[j]}

\* DataFrame.sort_values(by=column_name, ascending=ascending) with the default
\* kind='quicksort', which pandas documents as not stable: every ordering of
\* the rows that is sorted by the column is a possible result.  The index
\* labels travel with their rows.
sort_values(df, by, ascending) ==
  {[df EXCEPT !.rows = [i \in 1..Len(df.rows) |-> df.rows[p[i]]]] :
     p \in {q \in Orderings(Len(df.rows)) :
              \A i, j \in 1..Len(df.rows) :
                i < j => ~Precedes(df.rows[q[j]].v[by], df.rows[q[i]].v[by],
                                   ascending)}}

sort_data(df, column_name, ascending) == sort_values(df, column_name, ascending)

-----------------------------------------------------------------------------
(* check_domain_constraints *)

isin(cell, valid_values) == cell.t = "str" /\ cell.s \in valid_values

Line(text, col, idxs) == [text |-> text, col |-> col, idxs |-> idxs]

\* a validator that enforces the constraint: it drops the offending rows from
\* the caller's DataFrame as well as reporting them
check_domain_constraints_enforcing(df, column_name, valid) ==
  LET bad == {i \in 1..Len(df.rows) : ~isin(df.rows[i].v[column_name], valid)}
  IN  [data |-> [df EXCEPT !.rows = RowsAt(@, (1..Len(@)) \ bad)],
       out  |-> IF bad # {}
                  THEN <<Line("Invalid values found in column", column_name,
                              Labels([df EXCEPT !.rows = RowsAt(@, bad)]))>>
                  ELSE <<Line("No domain constraint problems found in column",
                              column_name, <<>>)>>]

\* What the call leaves behind: the caller's DataFrame and the lines printed.
check_domain_constraints(df, column_name, valid_values) ==
  LET invalid_values ==
        RowsAt(df.rows, {i \in 1..Len(df.rows) :
                           ~isin(df.rows[i].v[column_name], valid_values)})
  IN  [data |-> df,
       out  |-> IF invalid_values # <<>>
                  THEN <<Line("Invalid values found in column", column_name,
                              [i \in 1..Len(invalid_values) |-> invalid_values[i].idx])>>
                  ELSE <<Line("No domain constraint problems found in column",
                              column_name, <<>>)>>]

-----------------------------------------------------------------------------
(* transform_data *)

RECURSIVE SumOver(_, _, _)
\* the sum of f(cell) over the column's cells, rows i..Len(rows)
SumOver(rows, col, sq) ==
  IF rows = <<>> THEN 0
  ELSE (IF sq THEN Head(rows).v[col].n * Head(rows).v[col].n
              ELSE Head(rows).v[col].n)
       + SumOver(Tail(rows), col, sq)

\* StandardScaler().fit_transform on one column: (x - mean) / std with the
\* population standard deviation; a zero standard deviation is replaced by 1.
fit_transform_scale(rows, col, x) ==
  LET k == Len(rows)
      S == SumOver(rows, col, FALSE)
      V == k * SumOver(rows, col, TRUE) - S * S
  IN  IF V = 0 THEN Scaled(0, 1) ELSE Scaled(k * x.n - S, V)

RECURSIVE SortedSeq(_)
\* the strings of S in increasing order (OneHotEncoder's categories_)
SortedSeq(S) ==
  IF S = {} THEN <<>>
  ELSE LET m == CHOOSE a \in S : \A b \in S \ {a} : StrLess(a, b)
       IN  <<m>> \o SortedSeq(S \ {m})

categories(df, col) == SortedSeq({df.rows[i].v[col].s : i \in 1..Len(df.rows)})

RECURSIVE feature_names(_, _)
\* encoder.get_feature_names_out(categorical_cols): <<column, category>>
feature_names(df, cols) ==
  IF cols = <<>> THEN <<>>
  ELSE LET cats == categories(df, Head(cols))
       IN  [i \in 1..Len(cats) |-> <<Head(cols), cats[i]>>]
             \o feature_names(df, Tail(cols))

\* A numeric column keeps its name; as a column of the transformed frame it is
\* written <<column, <<>>>> so that all its columns are pairs.
NumName(col) == <<col, <<>>>>

NoExc == "none"

\* transform_data(data): the outcomes of a call.  `data` is what the call
\* leaves in the caller's DataFrame (line 75 assigns the scaled columns into
\* the object passed in), `ret` the returned frame and `exc` the exception
\* raised instead.  StandardScaler rejects an input with no row or no column;
\* whether OneHotEncoder rejects a frame with no column depends on the
\* scikit-learn at hand, so both outcomes are kept.
transform_data(df) ==
  LET k        == Len(df.rows)
      numcols  == numerical_cols(df)
      catcols  == object_cols(df)
      scaled   == [df EXCEPT !.rows =
                     [i \in 1..k |->
                        [df.rows[i] EXCEPT !.v =
                           [c \in DOMAIN @ |->
                              IF c \in Range(numcols)
                                THEN fit_transform_scale(df.rows, c, @[c])
                                ELSE @[c]]]]]
      names    == feature_names(scaled, catcols)
      \* encoded_data: a new frame, its index the default 0..k-1
      encoded  == [i \in 1..k |->
                     [p \in Range(names) |->
                        IF scaled.rows[i].v[p[1]].s = p[2] THEN Num(1) ELSE Num(0)]]
      \* pd.concat([data, encoded_data], axis=1): the union of the two indexes,
      \* data's labels first, then the labels only encoded_data has
      own      == Labels(scaled)
      extra    == SelectSeq([i \in 1..k |-> i - 1], LAMBDA l : l \notin Range(own))
      index    == own \o extra
      outcols  == [i \in 1..Len(numcols) |-> NumName(numcols[i])] \o names
      RowOf(l) == IF l \in Range(own)
                    THEN scaled.rows[CHOOSE i \in 1..k : own[i] = l]
                    ELSE [idx |-> l, v |-> [c \in Range(df.cols) |-> NaN]]
      joined   == [j \in 1..Len(index) |->
                     [idx |-> index[j],
                      v   |-> [p \in Range(outcols) |->
                                 IF p[2] = <<>>
                                   THEN RowOf(index[j]).v[p[1]]
                                   ELSE IF index[j] < k
                                          THEN encoded[index[j] + 1][p]
                                          ELSE NaN]]]
      returned == [data |-> scaled,
                   ret  |-> [isdf  |-> TRUE,
                             cols  |-> outcols,
                             dtype |-> [p \in Range(outcols) |-> "number"],
                             rows  |-> joined],
                   exc  |-> NoExc]
  IN  IF k = 0 \/ numcols = <<>>
        THEN {[data |-> df, ret |-> None, exc |-> "ValueError"]}
      ELSE IF catcols = <<>>
        THEN {[data |-> scaled, ret |-> None, exc |-> "ValueError"], returned}
      ELSE {returned}

-----------------------------------------------------------------------------
(* Input datasets *)

\* what a column of a source can hold
Schemas ==
  { [cols |-> <<"name", "x">>,
     cells |-> [c \in {"name", "x"} |->
                  IF c = "name" THEN {Str(ab), Str(ba), Str(c_bang), NaN}
                                ELSE {Num(1), Num(2)}]],
    [cols |-> <<"some_column", "x">>,
     cells |-> [c \in {"some_column", "x"} |->
                  IF c = "some_column" THEN {Str(Value1), Str(V9), NaN}
                                       ELSE {Num(1), Num(2)}]],
    [cols |-> <<"name", "some_column", "x">>,
     cells |-> [c \in {"name", "some_column", "x"} |->
                  IF c = "name" THEN {Str(ab), Str(ba)}
                  ELSE IF c = "some_column" THEN {Str(Value1), Str(V9)}
                  ELSE {Num(1), Num(2)}]],
    [cols |-> <<"x">>,    cells |-> [c \in {"x"} |-> {Num(1), Num(2), NaN}]],
    [cols |-> <<"name">>, cells |-> [c \in {"name"} |-> {Str(ab), Str(ba), NaN}]] }

ColumnNames == {"name", "some_column", "x"}

DtypeOf(col) == IF col = "x" THEN "number" ELSE "object"

\* a freshly loaded frame: the default index 0..n-1
Frame(cols, vals) ==
  [isdf  |-> TRUE,
   cols  |-> cols,
   dtype |-> [c \in Range(cols) |-> DtypeOf(c)],
   rows  |-> [i \in 1..Len(vals) |-> [idx |-> i - 1, v |-> vals[i]]]]

RowSpace(sch) ==
  {v \in [Range(sch.cols) -> UNION {sch.cells[c] : c \in Range(sch.cols)}] :
     \A c \in Range(sch.cols) : v[c] \in sch.cells[c]}

Datasets ==
  UNION { UNION { {Frame(sch.cols, vals) : vals \in [1..n -> RowSpace(sch)]}
                  : n \in 0..MaxRows }
          : sch \in Schemas }

-----------------------------------------------------------------------------
(* load_api *)

Response(outcome, status, json, has_data, payload, df) ==
  [outcome |-> outcome, status |-> status, json |-> json,
   has_data |-> has_data, payload |-> payload, df |-> df]

\* What requests.get(api_url, timeout=10) can come back with.
\*   outcome  : "response", "timeout" (requests.exceptions.Timeout) or
\*              "error" (another requests.exceptions.RequestException)
\*   json     : the body: "invalid" (not JSON), "object", "array", "number",
\*              "null", or "string" (a JSON string)
\*   has_data : `'data' in body` for an object, an array or a string
\*   payload  : body['data'] of an object: "records" (df holds them) or "number"
Responses ==
  { Response("timeout", 0, "", FALSE, "", None),
    Response("error", 0, "", FALSE, "", None),
    Response("response", 404, "invalid", FALSE, "", None),
    Response("response", 500, "object", TRUE, "records", None),
    Response("response", 200, "invalid", FALSE, "", None),
    Response("response", 200, "array", FALSE, "", None),
    Response("response", 200, "number", FALSE, "", None),
    Response("response", 200, "null", FALSE, "", None),
    Response("response", 200, "string", TRUE, "", None),
    Response("response", 200, "string", FALSE, "", None),
    Response("response", 200, "object", FALSE, "", None),
    Response("response", 200, "object", TRUE, "number", None) }
  \cup { Response("response", 200, "object", TRUE, "records", d) : d \in Datasets }

Answer(r, exc, out) == [ret |-> r, exc |-> exc, out |-> out]

\* load_api(api_url), given what the GET came back with.  response.json() on
\* a body that is not JSON raises requests.exceptions.JSONDecodeError, a
\* RequestException, so line 39 catches it.
load_api(resp) ==
  IF resp.outcome = "timeout"
    THEN Answer(None, NoExc, <<Line("The request timed out", "", <<>>)>>)
  ELSE IF resp.outcome = "error"
    THEN Answer(None, NoExc, <<Line("An error occurred", "", <<>>)>>)
  ELSE IF resp.status # 200
    THEN Answer(None, NoExc, <<Line("Request failed with status code", "", <<>>)>>)
  ELSE IF resp.json = "invalid"
    THEN Answer(None, NoExc, <<Line("An error occurred", "", <<>>)>>)
  ELSE IF resp.json \in {"number", "null"}
    \* 'data' in data: argument of type 'int' / 'NoneType' is not iterable
    THEN Answer(None, "TypeError", <<>>)
  ELSE IF ~resp.has_data
    THEN Answer(None, NoExc, <<Line("Unexpected response structure", "", <<>>)>>)
  ELSE IF resp.json = "string"
    \* data['data'] on a str: string indices must be integers
    THEN Answer(None, "TypeError", <<>>)
  ELSE IF resp.payload = "number"
    \* pd.DataFrame(5): DataFrame constructor not properly called
    THEN Answer(None, "ValueError", <<>>)
  ELSE Answer(resp.df, NoExc, <<>>)

-----------------------------------------------------------------------------
(* State *)

Running == 0 - 1

NotRaised == [type |-> NoExc, in |-> ""]

NoCall == [fn |-> "", arg |-> None, column_name |-> "", ascending |-> TRUE,
           valid_values |-> {}, again |-> FALSE]

NoResponse == Response("none", 0, "", FALSE, "", None)

NoRet == [data |-> None, out |-> <<>>, exc |-> NoExc]

\* command lines; the first element is the program name
Argvs ==
  { <<"demo.py">>,
    <<"demo.py", "csv">>,
    <<"demo.py", "csv", "in.csv">>,
    <<"demo.py", "excel", "in.xlsx">>,
    <<"demo.py", "api", "http://host/rows">>,
    <<"demo.py", "database", "sqlite:///db">>,
    <<"demo.py", "database", "sqlite:///db", "SELECT">>,
    <<"demo.py", "ftp", "in.csv">> }

Init ==
  /\ name \in {"__main__", "demo"}
  /\ argv \in IF name = "__main__" THEN Argvs ELSE {<<>>}
  /\ pc = IF name = "__main__" THEN "start" ELSE "lib"
  /\ data = None
  /\ cleaned_data = None
  /\ transformed_data = None
  /\ files = {}
  /\ exit_status = Running
  /\ raised = NotRaised
  /\ invoked = {}
  /\ stdout = <<>>
  /\ response = NoResponse
  /\ call = NoCall
  /\ ret = NoRet

main_vars == <<argv, pc, data, cleaned_data, transformed_data, files,
               exit_status, raised, invoked, stdout, response>>

\* sys.exit(status)
Exit(status) ==
  /\ pc' = "exit"
  /\ exit_status' = status

\* an exception nothing catches: traceback, exit status 1
Uncaught(type, in) ==
  /\ pc' = "exit"
  /\ exit_status' = 1
  /\ raised' = [type |-> type, in |-> in]

print(text) == stdout' = Append(stdout, Line(text, "", <<>>))

-----------------------------------------------------------------------------
(* __main__ *)

\* sys.argv[1], sys.argv[2]
data_source == argv[2]

Usage ==
  /\ pc = "start"
  /\ Len(argv) < 3
  /\ print("Usage: python file.py <data_source> <source_path_or_url>")
  /\ Exit(1)
  /\ UNCHANGED <<name, argv, data, cleaned_data, transformed_data, files,
                 raised, invoked, response, call, ret>>

\* data = loader(...): the loader returns a frame, or raises
Loaded(loader, d) ==
  /\ invoked' = invoked \cup {loader}
  /\ data' = d
  /\ pc' = "loaded"
  /\ UNCHANGED <<name, argv, cleaned_data, transformed_data, files,
                 exit_status, raised, stdout, response, call, ret>>

LoaderRaises(loader, type) ==
  /\ invoked' = invoked \cup {loader}
  /\ Uncaught(type, loader)
  /\ UNCHANGED <<name, argv, data, cleaned_data, transformed_data, files,
                 stdout, response, call, ret>>

LoadCsv ==
  /\ pc = "start"
  /\ Len(argv) >= 3
  /\ data_source = "csv"
  /\ \/ \E d \in Datasets : Loaded("load_csv", d)
     \/ LoaderRaises("load_csv", "FileNotFoundError")

LoadExcel ==
  /\ pc = "start"
  /\ Len(argv) >= 3
  /\ data_source = "excel"
  /\ \/ \E d \in Datasets : Loaded("load_excel", d)
     \/ LoaderRaises("load_excel", "FileNotFoundError")

LoadApi ==
  /\ pc = "start"
  /\ Len(argv) >= 3
  /\ data_source = "api"
  /\ \E resp \in Responses :
       LET a == load_api(resp)
       IN  /\ invoked' = invoked \cup {"load_api"}
           /\ response' = resp
           /\ stdout' = stdout \o a.out
           /\ IF a.exc # NoExc
                THEN /\ Uncaught(a.exc, "load_api")
                     /\ UNCHANGED data
                ELSE /\ data' = a.ret
                     /\ pc' = "loaded"
                     /\ UNCHANGED <<exit_status, raised>>
           /\ UNCHANGED <<name, argv, cleaned_data, transformed_data, files,
                          call, ret>>

DatabaseUsage ==
  /\ pc = "start"
  /\ Len(argv) >= 3
  /\ data_source = "database"
  /\ Len(argv) < 4
  /\ print("Usage for database: python file.py database <connection_string> <query>")
  /\ Exit(1)
  /\ UNCHANGED <<name, argv, data, cleaned_data, transformed_data, files,
                 raised, invoked, response, call, ret>>

LoadDatabase ==
  /\ pc = "start"
  /\ Len(argv) >= 3
  /\ data_source = "database"
  /\ Len(argv) >= 4
  /\ \/ \E d \in Datasets : Loaded("load_database", d)
     \/ LoaderRaises("load_database", "OperationalError")

Unsupported ==
  /\ pc = "start"
  /\ Len(argv) >= 3
  /\ data_source \notin {"csv", "excel", "api", "database"}
  /\ print("Unsupported data source")
  /\ Exit(1)
  /\ UNCHANGED <<name, argv, data, cleaned_data, transformed_data, files,
                 raised, invoked, response, call, ret>>

\* the entry point without its check of `data` (its earlier form, lines 116-148)
NullGuardOmitted ==
  /\ pc = "loaded"
  /\ pc' = "clean"
  /\ UNCHANGED <<name, argv, data, cleaned_data, transformed_data, files,
                 exit_status, raised, invoked, stdout, response, call, ret>>

\* if data is None: print(...); sys.exit(1)
NullGuard ==
  /\ pc = "loaded"
  /\ IF data = None
       THEN /\ print("Failed to load data. Exiting.")
            /\ Exit(1)
       ELSE /\ pc' = "clean"
            /\ UNCHANGED <<exit_status, stdout>>
  /\ UNCHANGED <<name, argv, data, cleaned_data, transformed_data, files,
                 raised, invoked, response, call, ret>>

-----------------------------------------------------------------------------
(* perform_analysis, as __main__ runs it *)

\* cleaned_data = clean_data(data); None has no drop_duplicates
Clean ==
  /\ pc = "clean"
  /\ invoked' = invoked \cup {"perform_analysis"}
  /\ IF data = None
       THEN /\ Uncaught("AttributeError", "clean_data")
            /\ UNCHANGED cleaned_data
       ELSE /\ cleaned_data' = clean_data(data)
            /\ pc' = "sort"
            /\ UNCHANGED <<exit_status, raised>>
  /\ UNCHANGED <<name, argv, data, transformed_data, files, stdout, response, call, ret>>

\* if 'name' in cleaned_data.columns: cleaned_data = sort_data(cleaned_data, 'name')
Sort ==
  /\ pc = "sort"
  /\ IF "name" \in Range(cleaned_data.cols)
       THEN cleaned_data' \in sort_data(cleaned_data, "name", TRUE)
       ELSE UNCHANGED cleaned_data
  /\ pc' = "validate"
  /\ UNCHANGED <<name, argv, data, transformed_data, files, exit_status,
                 raised, invoked, stdout, response, call, ret>>

valid_values == {Value1, Value2, Value3}

\* if 'some_column' in cleaned_data.columns: check_domain_constraints(...)
Validate ==
  /\ pc = "validate"
  /\ IF "some_column" \in Range(cleaned_data.cols)
       THEN LET r == check_domain_constraints(cleaned_data, "some_column",
                                              valid_values)
            IN  /\ cleaned_data' = r.data
                /\ stdout' = stdout \o r.out
       ELSE UNCHANGED <<cleaned_data, stdout>>
  /\ pc' = "transform"
  /\ UNCHANGED <<name, argv, data, transformed_data, files, exit_status,
                 raised, invoked, response, call, ret>>

\* transformed_data = transform_data(cleaned_data); return both
Transform ==
  /\ pc = "transform"
  /\ \E r \in transform_data(cleaned_data) :
         /\ cleaned_data' = r.data
         /\ IF r.exc # NoExc
              THEN /\ Uncaught(r.exc, "transform_data")
                   /\ UNCHANGED transformed_data
              ELSE /\ transformed_data' = r.ret
                   /\ pc' = "save_cleaned"
                   /\ UNCHANGED <<exit_status, raised>>
  /\ UNCHANGED <<name, argv, data, files, invoked, stdout, response, call, ret>>

-----------------------------------------------------------------------------
(* writing the two files *)

\* DataFrame.to_csv(path, index=False): the file is written, or the write
\* fails (the path is not writable, the disk is full) and OSError is raised
to_csv(path, next) ==
  \/ /\ files' = files \cup {path}
     /\ IF next = "exit" THEN Exit(0) ELSE pc' = next /\ UNCHANGED exit_status
     /\ UNCHANGED raised
  \/ /\ Uncaught("OSError", "to_csv")
     /\ UNCHANGED files

SaveCleaned ==
  /\ pc = "save_cleaned"
  /\ to_csv("cleaned_data.csv", "save_transformed")
  /\ UNCHANGED <<name, argv, data, cleaned_data, transformed_data, invoked,
                 stdout, response, call, ret>>

\* the last statement of the script: the process then ends with status 0
SaveTransformed ==
  /\ pc = "save_transformed"
  /\ to_csv("transformed_data.csv", "exit")
  /\ UNCHANGED <<name, argv, data, cleaned_data, transformed_data, invoked,
                 stdout, response, call, ret>>

-----------------------------------------------------------------------------
(* demo.py imported: a client calls its functions on a frame of its own *)

Called(fn, arg, column_name, ascending, valid, again) ==
  [fn |-> fn, arg |-> arg, column_name |-> column_name,
   ascending |-> ascending, valid_values |-> valid, again |-> again]

Returned(d, out, exc) == [data |-> d, out |-> out, exc |-> exc]

CallCleanData ==
  /\ pc = "lib"
  /\ call = NoCall
  /\ \E d \in Datasets :
       /\ call' = Called("clean_data", d, "", TRUE, {}, FALSE)
       /\ ret' = Returned(clean_data(d), <<>>, NoExc)
  /\ UNCHANGED <<name, main_vars>>

\* clean_data applied to what clean_data returned
CallCleanDataAgain ==
  /\ pc = "lib"
  /\ call.fn = "clean_data"
  /\ ~call.again
  /\ call' = Called("clean_data", ret.data, "", TRUE, {}, TRUE)
  /\ ret' = Returned(clean_data(ret.data), <<>>, NoExc)
  /\ UNCHANGED <<name, main_vars>>

\* sort_data(data, column_name, ascending); a column the frame does not have
\* is a KeyError
CallSortData ==
  /\ pc = "lib"
  /\ call = NoCall
  /\ \E d \in Datasets, col \in ColumnNames, asc \in BOOLEAN :
       /\ call' = Called("sort_data", d, col, asc, {}, FALSE)
       /\ IF col \in Range(d.cols)
            THEN \E r \in sort_data(d, col, asc) : ret' = Returned(r, <<>>, NoExc)
            ELSE ret' = Returned(None, <<>>, "KeyError")
  /\ UNCHANGED <<name, main_vars>>

\* check_domain_constraints(data, column_name, valid_values); ret.data is the
\* client's frame after the call
CallCheckDomainConstraints ==
  /\ pc = "lib"
  /\ call = NoCall
  /\ \E d \in Datasets, col \in ColumnNames, valid \in {valid_values, {ab, V9}} :
       /\ call' = Called("check_domain_constraints", d, col, TRUE, valid, FALSE)
       /\ IF col \in Range(d.cols)
            THEN LET r == check_domain_constraints(d, col, valid)
                 IN  ret' = Returned(r.data, r.out, NoExc)
            ELSE ret' = Returned(d, <<>>, "KeyError")
  /\ UNCHANGED <<name, main_vars>>

-----------------------------------------------------------------------------

Next ==
  \/ Usage
  \/ LoadCsv
  \/ LoadExcel
  \/ LoadApi
  \/ DatabaseUsage
  \/ LoadDatabase
  \/ Unsupported
  \/ NullGuard
  \/ Clean
  \/ Sort
  \/ Validate
  \/ Transform
  \/ SaveCleaned
  \/ SaveTransformed
  \/ CallCleanData
  \/ CallCleanDataAgain
  \/ CallSortData
  \/ CallCheckDomainConstraints

Spec == Init /\ [][Next]_vars

-----------------------------------------------------------------------------
(* Properties *)

Loaders == {"load_csv", "load_excel", "load_api", "load_database"}

NoDuplicateRows(df) ==
  \A i, j \in 1..Len(df.rows) : i < j => df.rows[i].v # df.rows[j].v

HasMissing(row, cols) == \E c \in Range(cols) : isnull(row.v[c])

\* C1: the transform step leaves the cleaned dataset as it was: when
\* transform_data returns, cleaned_data holds the values it held before the
\* call (its numeric columns unscaled).
C1_CleanedNotMutated ==
  [][pc = "transform" /\ pc' = "save_cleaned"
       => cleaned_data' = cleaned_data]_vars

\* the transformed frame has one row per row of `before`, in its order, each
\* with that row's scaled numbers and that row's indicators
RowForRow(before, out) ==
  /\ Len(out.rows) = Len(before.rows)
  /\ \A i \in 1..Len(before.rows) : \A p \in Range(out.cols) :
       out.rows[i].v[p] =
         IF p[2] = <<>>
           THEN fit_transform_scale(before.rows, p[1], before.rows[i].v[p[1]])
           ELSE IF before.rows[i].v[p[1]].s = p[2] THEN Num(1) ELSE Num(0)

\* C2: the transformed dataset has exactly one row per cleaned row, in the same
\* order; in each row the indicator of the row's own category is 1 and the
\* other indicators of that column are 0, beside the row's own scaled numbers.
C2_OneHotRowForRow ==
  [][pc = "transform" /\ pc' = "save_cleaned"
       => RowForRow(cleaned_data, transformed_data')]_vars

\* C3: what clean_data returns holds no two rows that are exact duplicates.
C3_NoDuplicatesAfterClean ==
  /\ pc = "sort" => NoDuplicateRows(cleaned_data)
  /\ call.fn = "clean_data" => NoDuplicateRows(ret.data)

\* C4: clean_data is idempotent: applied to its own result it returns that
\* result, row for row and cell for cell.
C4_CleanIdempotent ==
  call.fn = "clean_data" /\ call.again
    => ret.data.cols = call.arg.cols /\ Values(ret.data) = Values(call.arg)

\* C5: load_api never raises; it returns a dataset only for a 200 response
\* whose JSON body has a `data` key, and the null result for every other
\* outcome of the GET, a malformed `data` value included.
C5_LoadApiNeverRaises ==
  "load_api" \in invoked =>
    /\ raised.in # "load_api"
    /\ data # None => /\ response.outcome = "response" /\ response.status = 200
                      /\ response.json = "object" /\ response.has_data
    /\ ~(/\ response.outcome = "response" /\ response.status = 200
         /\ response.json = "object" /\ response.has_data
         /\ response.payload = "records") => data = None

OutputFiles == {"cleaned_data.csv", "transformed_data.csv"}

\* C6: when the run has ended, either both files are written and the exit
\* status is 0, or no file is written and the exit status is not 0.
C6_BothFilesOrNone ==
  pc = "exit" => \/ files = OutputFiles /\ exit_status = 0
                 \/ files = {} /\ exit_status # 0

\* C7: `database` without a query and an unknown source name end the run with
\* a message and status 1 before any loader, perform_analysis or file write;
\* a loader that returned no data ends it with a message and status 1 before
\* perform_analysis and before any file write.
C7_EarlyExit ==
  LET dbNoQuery   == name = "__main__" /\ Len(argv) = 3 /\ argv[2] = "database"
      unsupported == /\ name = "__main__" /\ Len(argv) >= 3
                     /\ argv[2] \notin {"csv", "excel", "api", "database"}
      noData      == /\ pc \notin {"start", "lib"}
                     /\ invoked \cap Loaders # {}
                     /\ raised.in \notin Loaders
                     /\ data = None
  IN  /\ dbNoQuery \/ unsupported =>
        /\ invoked = {}
        /\ files = {}
        /\ pc \in {"start", "exit"}
        /\ pc = "exit" =>
             /\ exit_status = 1
             /\ raised = NotRaised
             /\ Len(stdout) = 1
             /\ stdout[1].text =
                  IF dbNoQuery
                    THEN "Usage for database: python file.py database <connection_string> <query>"
                    ELSE "Unsupported data source"
      /\ noData =>
        /\ "perform_analysis" \notin invoked
        /\ files = {}
        /\ pc \in {"loaded", "exit"}
        /\ pc = "exit" =>
             /\ exit_status = 1
             /\ raised = NotRaised
             /\ stdout # <<>>
             /\ stdout[Len(stdout)].text = "Failed to load data. Exiting."

\* load_api returned no data and the run ended with status 1
C7_Witness ==
  /\ pc = "exit"
  /\ invoked = {"load_api"}
  /\ response.status = 500
  /\ data = None
  /\ exit_status = 1

\* the index labels of the rows of df that hold no missing value and equal no
\* earlier row of df, in df's order
SurvivorLabels(df) ==
  LET keep == {i \in 1..Len(df.rows) :
                 /\ ~HasMissing(df.rows[i], df.cols)
                 /\ \A j \in 1..(i - 1) : df.rows[j].v # df.rows[i].v}
      F[i \in 0..Len(df.rows)] ==
        IF i = 0 THEN <<>>
        ELSE IF i \in keep THEN Append(F[i - 1], df.rows[i].idx) ELSE F[i - 1]
  IN  F[Len(df.rows)]

\* `out` is made of the surviving rows of `in`: their labels in their order,
\* their numbers untouched, and no row with a missing value
KeepsSurvivors(in, out) ==
  /\ Labels(out) = SurvivorLabels(in)
  /\ \A i \in 1..Len(out.rows) :
       /\ ~HasMissing(out.rows[i], out.cols)
       /\ \E k \in 1..Len(in.rows) :
            /\ in.rows[k].idx = out.rows[i].idx
            /\ ~HasMissing(in.rows[k], in.cols)
            /\ \A c \in Range(numerical_cols(in)) :
                 out.rows[i].v[c] = in.rows[k].v[c]

\* C8: the rows that survive clean_data are, in their original relative order,
\* the input rows that hold no missing value and are no duplicate of an earlier
\* input row; a row with a missing value is absent from the result.
C8_SurvivingRows ==
  /\ pc = "sort" => KeepsSurvivors(data, cleaned_data)
  /\ call.fn = "clean_data" => KeepsSurvivors(call.arg, ret.data)

\* [A, missing, A] cleaned to [A]
C8_Witness ==
  /\ call.fn = "clean_data"
  /\ ~call.again
  /\ Len(call.arg.rows) = 3
  /\ call.arg.rows[1].v = call.arg.rows[3].v
  /\ HasMissing(call.arg.rows[2], call.arg.cols)
  /\ Labels(ret.data) = <<0>>

\* C9: sort_data returns a permutation of the input rows, ordered by the named
\* column in the requested direction, and rows with equal values in that
\* column keep their relative order of the input.
C9_StableSort ==
  call.fn = "sort_data" /\ ret.exc = NoExc =>
    LET in  == call.arg.rows
        out == ret.data.rows
        key(r) == r.v[call.column_name]
    IN  /\ Len(out) = Len(in)
        /\ Range(out) = Range(in)
        /\ \A i, j \in 1..Len(out) :
             i < j => /\ ~Precedes(key(out[j]), key(out[i]), call.ascending)
                      /\ key(out[i]) = key(out[j]) /\ ~isnull(key(out[i]))
                           => out[i].idx < out[j].idx

NotMember(cell, valid) == cell.t # "str" \/ cell.s \notin valid

\* exactly one line is printed: the violation report if a row's value is not
\* in valid, the confirmation otherwise
ReportsExactly(df, col, valid, out) ==
  /\ Len(out) = 1
  /\ out[1].col = col
  /\ IF \E i \in 1..Len(df.rows) : NotMember(df.rows[i].v[col], valid)
       THEN out[1].text = "Invalid values found in column"
       ELSE out[1].text = "No domain constraint problems found in column"

\* C10: check_domain_constraints only reports: it leaves the dataset as it
\* was, prints the violation report exactly when some row's value in the
\* column is not in valid_values and the confirmation otherwise; the
\* validation step of perform_analysis changes nothing but the output.
C10_ReportOnly ==
  [][/\ pc = "validate" =>
          /\ cleaned_data' = cleaned_data
          /\ <<data, transformed_data, files>>' = <<data, transformed_data, files>>
          /\ IF "some_column" \in Range(cleaned_data.cols)
               THEN /\ Len(stdout') = Len(stdout) + 1
                    /\ ReportsExactly(cleaned_data, "some_column", valid_values,
                                      <<stdout'[Len(stdout')]>>)
               ELSE stdout' = stdout
     /\ call'.fn = "check_domain_constraints" /\ ret'.exc = NoExc =>
          /\ ret'.data = call'.arg
          /\ ReportsExactly(call'.arg, call'.column_name, call'.valid_values,
                            ret'.out)]_vars

\* perform_analysis validated a column with a value outside the permitted ones
C10_Witness ==
  /\ pc = "transform"
  /\ "some_column" \in Range(cleaned_data.cols)
  /\ Len(cleaned_data.rows) >= 2
  /\ stdout # <<>>
  /\ stdout[Len(stdout)].text = "Invalid values found in column"
  /\ stdout[Len(stdout)].idxs # Labels(cleaned_data)

====
